---- MODULE Spec2Model ----
(***************************************************************************)
(* A model of package draw (src/draw.go): a drawing Context bound to one   *)
(* image.RGBA surface, its style fields, and its drawing operations.       *)
(*                                                                         *)
(* The surface is a function from pixel <<x, y>> to a colour.  Every       *)
(* operation is one action.  The variable call records what the last      *)
(* operation did (the Line calls it made, the Dot calls in order, the      *)
(* pixels its fill loop tested and wrote, its return value); it is an      *)
(* observer of the run, not a field of the program.                        *)
(*                                                                         *)
(* Go's int is 64 bits wide and every coordinate used here is far below    *)
(* 2^53, so the int arithmetic does not wrap and every float64 conversion  *)
(* of an int is exact.                                                     *)
(***************************************************************************)
EXTENDS Integers, Sequences, FiniteSets

VARIABLES
    rgba,         \* c.rgba: the pixels of the surface
    bgColor,      \* the uniform colour the surface had when the context was made
    penColor,     \* c.penColor
    fillColor,    \* c.fillColor
    textColor,    \* c.textColor
    font,         \* c.font
    fontOptions,  \* c.fontOptions (a pointer: "nil" or the options it points to)
    fontDrawer,   \* c.fontDrawer: its Src, Face and Dot
    panicked,     \* the goroutine hit a run-time panic
    call          \* the last operation and what it did

vars == <<rgba, bgColor, penColor, fillColor, textColor, font, fontOptions,
          fontDrawer, panicked, call>>

----------------------------------------------------------------------------
(* Bounds of the exploration *)

\* the surface is SurfaceSize x SurfaceSize pixels, image.Rect(0, 0, S, S)
SurfaceSize == 8
\* coordinates of the calls explored in Spec are 0..MaxCoord
MaxCoord == 2
\* coordinates of the Line calls explored in SpecLine are -LineRange..LineRange
LineRange == 3
\* Cross sizes are 0..MaxSize
MaxSize == 2
\* longest point list given to Dots, Path, Polygon and IsInPolygon in Spec
MaxPts == 2
\* longest point list given to Path in SpecPath
ChainLen == 3
\* longest point list given to Polygon in SpecPolygon
PolygonLen == 4
\* polygon vertices given to IsInPolygon in SpecPoly have coordinates 0..PolyMax
PolyMax == 2
\* longest vertex list given to IsInPolygon in SpecPoly
PolyLen == 3
\* Parabola coefficients are -MaxCoef..MaxCoef
MaxCoef == 1

----------------------------------------------------------------------------
(* Values *)

Transparent == "Transparent"
Black == "Black"
Colours == {Black, "Red", Transparent}
Backgrounds == {"White", Transparent}
Fonts == {"ttf", "otf"}
Sizes == {12, 24}

Pixels == (0 .. SurfaceSize - 1) \X (0 .. SurfaceSize - 1)
Bounds == [Min |-> [X |-> 0, Y |-> 0], Max |-> [X |-> SurfaceSize, Y |-> SurfaceSize]]

Point(x, y) == [X |-> x, Y |-> y]

Abs(n) == IF n < 0 THEN -n ELSE n

SeqSet(s) == {s[i] : i \in 1 .. Len(s)}

NoCall == [op |-> "none", args |-> <<>>, lines |-> <<>>, dots |-> <<>>,
           tested |-> {}, filled |-> {}, ret |-> FALSE]

----------------------------------------------------------------------------
(* image.RGBA *)

\* rgba.Set(x, y, clr): a pixel outside the surface's rectangle is left alone
Set(img, x, y, clr) ==
    IF <<x, y>> \in DOMAIN img THEN [img EXCEPT ![<<x, y>>] = clr] ELSE img

RECURSIVE SetAll(_, _, _)
\* rgba.Set for each pixel of the sequence dots, in order
SetAll(img, dots, clr) ==
    IF dots = <<>> THEN img
    ELSE SetAll(Set(img, Head(dots)[1], Head(dots)[2], clr), Tail(dots), clr)

\* image.Rect(x0, y0, x1, y1): the rectangle with its corners put in order;
\* Min is inside it and Max is not.
ImageRect(x0, y0, x1, y1) ==
    [Min |-> [X |-> IF x0 > x1 THEN x1 ELSE x0, Y |-> IF y0 > y1 THEN y1 ELSE y0],
     Max |-> [X |-> IF x0 > x1 THEN x0 ELSE x1, Y |-> IF y0 > y1 THEN y0 ELSE y1]]

\* Rectangle.Empty
RectEmpty(r) == r.Min.X >= r.Max.X \/ r.Min.Y >= r.Max.Y

\* Rectangle.In: an empty rectangle is in every rectangle
RectIn(r, s) ==
    IF RectEmpty(r) THEN TRUE
    ELSE /\ s.Min.X <= r.Min.X /\ r.Max.X <= s.Max.X
         /\ s.Min.Y <= r.Min.Y /\ r.Max.Y <= s.Max.Y

\* the pixels of the surface that rectangle r holds
RectPixels(r) ==
    {p \in Pixels : r.Min.X <= p[1] /\ p[1] < r.Max.X /\ r.Min.Y <= p[2] /\ p[2] < r.Max.Y}

----------------------------------------------------------------------------
(* Line *)

\* a mutant of SwapXandY: a diagonal is not taken as steep
SwapXandYStrict(x0, y0, x1, y1) == Abs(y1 - y0) > Abs(x1 - x0)

\* swapXandY: the line is steep, the loop walks y
SwapXandY(x0, y0, x1, y1) == Abs(y1 - y0) >= Abs(x1 - x0)

\* a mutant of Swap0and1: the end points are never put in order
Swap0and1Never(x0, y0, x1, y1) == FALSE

\* swap0and1: the end points are exchanged so that the loop walks upwards
Swap0and1(x0, y0, x1, y1) ==
    \/ SwapXandY(x0, y0, x1, y1) /\ y0 > y1
    \/ ~SwapXandY(x0, y0, x1, y1) /\ x0 > x1

RECURSIVE LineLoopInclusive(_, _, _, _, _, _, _, _)
\* a mutant of LineLoop: the loop runs while x <= x1
LineLoopInclusive(x, x1, y, D, dx, dy, yi, swapXandY) ==
    IF ~(x <= x1) THEN <<>>
    ELSE <<IF swapXandY THEN <<y, x>> ELSE <<x, y>>>>
         \o LineLoopInclusive(x + 1, x1, IF D > 0 THEN y + yi ELSE y,
                              (IF D > 0 THEN D - 2 * dx ELSE D) + 2 * dy,
                              dx, dy, yi, swapXandY)

RECURSIVE LineLoop(_, _, _, _, _, _, _, _)
\* the loop of Line from x on: the Dot calls it makes, in order
LineLoop(x, x1, y, D, dx, dy, yi, swapXandY) ==
    IF ~(x < x1) THEN <<>>
    ELSE <<IF swapXandY THEN <<y, x>> ELSE <<x, y>>>>
         \o LineLoop(x + 1, x1, IF D > 0 THEN y + yi ELSE y,
                     (IF D > 0 THEN D - 2 * dx ELSE D) + 2 * dy,
                     dx, dy, yi, swapXandY)

\* Line(x0, y0, x1, y1): the Dot calls it makes, in order
LineDots(x0, y0, x1, y1) ==
    LET swapXandY == SwapXandY(x0, y0, x1, y1)
        swap0and1 == Swap0and1(x0, y0, x1, y1)
        ax0 == IF swap0and1 THEN x1 ELSE x0
        ay0 == IF swap0and1 THEN y1 ELSE y0
        ax1 == IF swap0and1 THEN x0 ELSE x1
        ay1 == IF swap0and1 THEN y0 ELSE y1
        dx1 == ax1 - ax0
        dy1 == ay1 - ay0
        dx == IF swapXandY THEN dy1 ELSE dx1
        dy2 == IF swapXandY THEN dx1 ELSE dy1
        bx0 == IF swapXandY THEN ay0 ELSE ax0
        by0 == IF swapXandY THEN ax0 ELSE ay0
        bx1 == IF swapXandY THEN ay1 ELSE ax1
        yi == IF dy2 < 0 THEN -1 ELSE 1
        dy == IF dy2 < 0 THEN -dy2 ELSE dy2
    IN LineLoop(bx0, bx1, by0, 2 * dy - dx, dx, dy, yi, swapXandY)

RECURSIVE LinesDots(_)
\* the Dot calls of a sequence of Line calls <<x0, y0, x1, y1>>, in order
LinesDots(lines) ==
    IF lines = <<>> THEN <<>>
    ELSE LineDots(Head(lines)[1], Head(lines)[2], Head(lines)[3], Head(lines)[4])
         \o LinesDots(Tail(lines))

----------------------------------------------------------------------------
(* Construction and style *)

\* NewContext(rgba) on a surface of one colour
NewContextState(bg) ==
    /\ rgba = [p \in Pixels |-> bg]
    /\ bgColor = bg
    /\ penColor = Black
    /\ fillColor = Transparent
    /\ textColor = Black
    /\ font = "nil"
    /\ fontOptions = "nil"
    /\ fontDrawer = [Src |-> Black, Face |-> "Face7x13", Dot |-> <<0, 0>>]
    /\ panicked = FALSE
    /\ call = NoCall

Init == \E bg \in Backgrounds : NewContextState(bg)

\* The program is running and this context has made no call yet but calls of
\* the colour setters.  Each behaviour explored is: a context on a surface of
\* one colour, any colour setters, then one other operation, whose effect call
\* records; NewContext then starts again on a new surface.  A panic ends the
\* program.
Ready == ~panicked /\ call.op = "none"

NewContext(bg) ==
    /\ ~panicked
    /\ rgba' = [p \in Pixels |-> bg]
    /\ bgColor' = bg
    /\ penColor' = Black
    /\ fillColor' = Transparent
    /\ textColor' = Black
    /\ font' = "nil"
    /\ fontOptions' = "nil"
    /\ fontDrawer' = [Src |-> Black, Face |-> "Face7x13", Dot |-> <<0, 0>>]
    /\ panicked' = FALSE
    /\ call' = NoCall

SetPen(clr) ==
    /\ Ready
    /\ penColor' = clr
    /\ UNCHANGED <<rgba, bgColor, fillColor, textColor, font, fontOptions,
                   fontDrawer, panicked, call>>

SetFill(clr) ==
    /\ Ready
    /\ fillColor' = clr
    /\ UNCHANGED <<rgba, bgColor, penColor, textColor, font, fontOptions,
                   fontDrawer, panicked, call>>

SetTextColor(clr) ==
    /\ Ready
    /\ textColor' = clr
    /\ UNCHANGED <<rgba, bgColor, penColor, fillColor, font, fontOptions,
                   fontDrawer, panicked, call>>

\* SetFontFace(f, options): c.font is assigned, then *c.fontOptions is written,
\* which is a nil pointer dereference while c.fontOptions is nil.
SetFontFace(f, options) ==
    /\ Ready
    /\ font' = f
    /\ IF fontOptions = "nil"
       THEN /\ panicked' = TRUE
            /\ UNCHANGED <<fontOptions, fontDrawer>>
       ELSE /\ fontOptions' = options
            /\ fontDrawer' = [fontDrawer EXCEPT !.Face = <<f, options>>]
            /\ UNCHANGED panicked
    /\ call' = [NoCall EXCEPT !.op = "SetFontFace", !.args = <<f, options>>]
    /\ UNCHANGED <<rgba, bgColor, penColor, fillColor, textColor>>

\* SetFontSize(size): c.fontOptions.Size is written first, a nil pointer
\* dereference while c.fontOptions is nil; then SetFontFace(c.font, c.fontOptions).
SetFontSize(size) ==
    /\ Ready
    /\ IF fontOptions = "nil"
       THEN /\ panicked' = TRUE
            /\ UNCHANGED <<fontOptions, fontDrawer>>
       ELSE /\ fontOptions' = [fontOptions EXCEPT !.Size = size]
            /\ fontDrawer' = [fontDrawer EXCEPT !.Face = <<font, fontOptions'>>]
            /\ UNCHANGED panicked
    /\ call' = [NoCall EXCEPT !.op = "SetFontSize", !.args = <<size>>]
    /\ UNCHANGED <<rgba, bgColor, penColor, fillColor, textColor, font>>

style == <<bgColor, penColor, fillColor, textColor, font, fontOptions, panicked>>

----------------------------------------------------------------------------
(* Pixels and lines *)

Dot(x, y) ==
    /\ Ready
    /\ rgba' = Set(rgba, x, y, penColor)
    /\ call' = [NoCall EXCEPT !.op = "Dot", !.args = <<x, y>>, !.dots = <<<<x, y>>>>]
    /\ UNCHANGED <<style, fontDrawer>>

RECURSIVE DotsOf(_)
\* the Dot calls of Dots(points)
DotsOf(points) ==
    IF points = <<>> THEN <<>>
    ELSE <<<<Head(points).X, Head(points).Y>>>> \o DotsOf(Tail(points))

Dots(points) ==
    /\ Ready
    /\ rgba' = SetAll(rgba, DotsOf(points), penColor)
    /\ call' = [NoCall EXCEPT !.op = "Dots", !.args = points, !.dots = DotsOf(points)]
    /\ UNCHANGED <<style, fontDrawer>>

Line(x0, y0, x1, y1) ==
    /\ Ready
    /\ rgba' = SetAll(rgba, LineDots(x0, y0, x1, y1), penColor)
    /\ call' = [NoCall EXCEPT !.op = "Line", !.args = <<x0, y0, x1, y1>>,
                              !.lines = <<<<x0, y0, x1, y1>>>>,
                              !.dots = LineDots(x0, y0, x1, y1)]
    /\ UNCHANGED <<style, fontDrawer>>

----------------------------------------------------------------------------
(* Rect, Cross, Path *)

\* the Line calls of Rect's outline phase
RectLines(x0, y0, x1, y1) ==
    <<<<x0, y0, x1, y0>>, <<x1, y0, x1, y1>>, <<x1, y1, x0, y1>>, <<x0, y0, x0, y1>>>>

\* a mutant of RectFillArea: the whole rectangle
RectFillAreaWhole(x0, y0, x1, y1) == ImageRect(x0, y0, x1, y1)

\* the rectangle Rect hands to draw.Draw: image.Rect(x0, y0, x1, y0)
RectFillArea(x0, y0, x1, y1) == ImageRect(x0, y0, x1, y0)

\* draw.Draw(dst, r, &image.Uniform{clr}, image.ZP, draw.Src): every pixel of
\* r that the surface holds is set to clr
DrawSrc(img, r, clr) == [p \in DOMAIN img |-> IF p \in RectPixels(r) THEN clr ELSE img[p]]

Rect(x0, y0, x1, y1) ==
    LET lines == IF penColor # Transparent THEN RectLines(x0, y0, x1, y1) ELSE <<>>
        outlined == SetAll(rgba, LinesDots(lines), penColor)
        area == RectFillArea(x0, y0, x1, y1)
    IN /\ Ready
       /\ rgba' = IF fillColor # Transparent THEN DrawSrc(outlined, area, fillColor)
                  ELSE outlined
       /\ call' = [NoCall EXCEPT !.op = "Rect", !.args = <<x0, y0, x1, y1>>,
                                 !.lines = lines, !.dots = LinesDots(lines),
                                 !.filled = IF fillColor # Transparent
                                            THEN RectPixels(area) ELSE {}]
       /\ UNCHANGED <<style, fontDrawer>>

\* the Line calls of Cross
CrossLines(x, y, size) == <<<<x, y - size, x, y + size>>, <<x - size, y, x + size, y>>>>

Cross(x, y, size) ==
    /\ Ready
    /\ rgba' = SetAll(rgba, LinesDots(CrossLines(x, y, size)), penColor)
    /\ call' = [NoCall EXCEPT !.op = "Cross", !.args = <<x, y, size>>,
                              !.lines = CrossLines(x, y, size),
                              !.dots = LinesDots(CrossLines(x, y, size))]
    /\ UNCHANGED <<style, fontDrawer>>

\* the Line calls of Path(points): one from each point but the last to the next
PathLines(points) ==
    [i \in 1 .. (IF Len(points) = 0 THEN 0 ELSE Len(points) - 1) |->
        <<points[i].X, points[i].Y, points[i + 1].X, points[i + 1].Y>>]

Path(points) ==
    /\ Ready
    /\ rgba' = SetAll(rgba, LinesDots(PathLines(points)), penColor)
    /\ call' = [NoCall EXCEPT !.op = "Path", !.args = points,
                              !.lines = PathLines(points),
                              !.dots = LinesDots(PathLines(points))]
    /\ UNCHANGED <<style, fontDrawer>>

----------------------------------------------------------------------------
(* IsInPolygon *)

\* a mutant of Crosses: the x of the crossing is taken without the "+ iX"
CrossesNoOffset(pi, pj, x, y) ==
    /\ (pi.Y > y) # (pj.Y > y)
    /\ IF pj.Y - pi.Y > 0
       THEN x * (pj.Y - pi.Y) < (pj.X - pi.X) * (y - pi.Y)
       ELSE x * (pj.Y - pi.Y) > (pj.X - pi.X) * (y - pi.Y)

\* (iY > fY) != (jY > fY) && fX < (jX-iX)*(fY-iY)/(jY-iY)+iX
\* The second conjunct is evaluated only when iY # jY.  In exact arithmetic
\* fX < n/d + iX is (fX - iX) * d < n for d > 0 and (fX - iX) * d > n for
\* d < 0.  The float64 evaluation agrees with it on the inputs used here:
\* n and d are exact, n/d is rounded to the nearest double, rounding is
\* monotone and a quotient that is not an integer is at least 1/|d| away
\* from every integer, so n/d + iX lies on the same side of the integer fX
\* before and after rounding.
Crosses(pi, pj, x, y) ==
    /\ (pi.Y > y) # (pj.Y > y)
    /\ IF pj.Y - pi.Y > 0
       THEN (x - pi.X) * (pj.Y - pi.Y) < (pj.X - pi.X) * (y - pi.Y)
       ELSE (x - pi.X) * (pj.Y - pi.Y) > (pj.X - pi.X) * (y - pi.Y)

RECURSIVE PnpolyLoop(_, _, _, _, _, _)
\* the loop of IsInPolygon from i on (i and j count from 1 here)
PnpolyLoop(i, j, odd, x, y, p) ==
    IF ~(i <= Len(p)) THEN odd
    ELSE PnpolyLoop(i + 1, i, IF Crosses(p[i], p[j], x, y) THEN ~odd ELSE odd, x, y, p)

\* what IsInPolygon(x, y, points) returns
InPolygon(x, y, points) == PnpolyLoop(1, Len(points), FALSE, x, y, points)

IsInPolygon(x, y, points) ==
    /\ Ready
    /\ call' = [NoCall EXCEPT !.op = "IsInPolygon", !.args = <<x, y, points>>,
                              !.ret = InPolygon(x, y, points)]
    /\ UNCHANGED <<rgba, style, fontDrawer>>

----------------------------------------------------------------------------
(* Polygon *)

minInt(a, b) == IF a < b THEN a ELSE b

maxInt(a, b) == IF a > b THEN a ELSE b

RECURSIVE DedupLoop(_, _)
\* Polygon's first loop: each point is kept the first time it is seen.  The
\* key fmt.Sprintf("%d,%d", X, Y) is different for different points, so the
\* map of keys is the set of points seen.
DedupLoop(points, p) ==
    IF points = <<>> THEN p
    ELSE DedupLoop(Tail(points),
                   IF Head(points) \in SeqSet(p) THEN p ELSE Append(p, Head(points)))

RECURSIVE BoxLoop(_, _, _)
\* Polygon's second loop from i on; all four updates take minInt
BoxLoop(i, box, p) ==
    IF ~(i <= Len(p)) THEN box
    ELSE BoxLoop(i + 1,
                 [minX |-> minInt(p[i].X, box.minX), maxX |-> minInt(p[i].X, box.maxX),
                  minY |-> minInt(p[i].Y, box.minY), maxY |-> minInt(p[i].Y, box.maxY)],
                 p)

\* the box Polygon scans: the loop's box, then "inside the bounds of the image"
PolygonBox(p) ==
    LET box == BoxLoop(1, [minX |-> Bounds.Max.X, maxX |-> Bounds.Min.X,
                           minY |-> Bounds.Max.Y, maxY |-> Bounds.Min.Y], p)
    IN [minX |-> minInt(box.minX, Bounds.Min.X), minY |-> minInt(box.minY, Bounds.Min.Y),
        maxX |-> maxInt(box.maxX, Bounds.Max.X), maxY |-> maxInt(box.maxY, Bounds.Max.Y)]

\* the pixels Polygon's fill loop gives to IsInPolygon
PolygonScanned(p) ==
    LET box == PolygonBox(p)
    IN (box.minX .. box.maxX - 1) \X (box.minY .. box.maxY - 1)

\* FillPixel(x, y) for each pixel of the set filled
FillPixels(img, filled, clr) ==
    [q \in DOMAIN img |-> IF q \in filled THEN clr ELSE img[q]]

\* the pixels of the scanned box for which IsInPolygon is true
PolygonFilled(tested, p) == {q \in tested : InPolygon(q[1], q[2], p)}

\* Polygon once the points are deduplicated: the outline, then the fill loop
PolygonDraw(points, p, lines, tested) ==
    /\ rgba' = FillPixels(SetAll(rgba, LinesDots(lines), penColor),
                          PolygonFilled(tested, p), fillColor)
    /\ call' = [NoCall EXCEPT !.op = "Polygon", !.args = points,
                              !.lines = lines, !.dots = LinesDots(lines),
                              !.tested = tested, !.filled = PolygonFilled(tested, p)]

\* the Line calls of Polygon's outline phase
PolygonLines(p) == IF penColor # Transparent THEN PathLines(p) ELSE <<>>

\* the pixels Polygon's fill phase tests
PolygonTested(p) == IF fillColor # Transparent THEN PolygonScanned(p) ELSE {}

Polygon(points) ==
    /\ Ready
    /\ PolygonDraw(points, DedupLoop(points, <<>>),
                   PolygonLines(DedupLoop(points, <<>>)),
                   PolygonTested(DedupLoop(points, <<>>)))
    /\ UNCHANGED <<style, fontDrawer>>

----------------------------------------------------------------------------
(* Parabola, ParabolaArc, Text *)

\* int(v + 0.5) for a whole number v: the conversion truncates towards zero
IntHalf(v) == IF v >= 0 THEN v ELSE v + 1

\* y for x, for whole coefficients
ParabolaY(a1, b1, c1, x) == IntHalf(a1 * x * x + b1 * x + c1)

RECURSIVE ParabolaDots(_, _, _, _, _)
\* the loop of Parabola and ParabolaArc from x to x2: image.Rect(x, y, x, y)
\* is empty, so its In(bounds) is true and Dot is called for every x
ParabolaDots(a1, b1, c1, x, x2) ==
    IF ~(x < x2) THEN <<>>
    ELSE (IF RectIn(ImageRect(x, ParabolaY(a1, b1, c1, x), x, ParabolaY(a1, b1, c1, x)), Bounds)
          THEN <<<<x, ParabolaY(a1, b1, c1, x)>>>> ELSE <<>>)
         \o ParabolaDots(a1, b1, c1, x + 1, x2)

Parabola(a1, b1, c1) ==
    LET dots == ParabolaDots(a1, b1, c1, Bounds.Min.X, Bounds.Max.X)
    IN /\ Ready
       /\ rgba' = SetAll(rgba, dots, penColor)
       /\ call' = [NoCall EXCEPT !.op = "Parabola", !.args = <<a1, b1, c1>>, !.dots = dots]
       /\ UNCHANGED <<style, fontDrawer>>

ParabolaArc(a1, b1, c1, x1, x2) ==
    LET dots == ParabolaDots(a1, b1, c1, maxInt(x1, Bounds.Min.X), minInt(x2, Bounds.Max.X))
    IN /\ Ready
       /\ rgba' = SetAll(rgba, dots, penColor)
       /\ call' = [NoCall EXCEPT !.op = "ParabolaArc", !.args = <<a1, b1, c1, x1, x2>>,
                                 !.dots = dots]
       /\ UNCHANGED <<style, fontDrawer>>

\* Text(x, y, text): the drawer's Src and Dot are set and DrawString is
\* called.  The glyphs DrawString paints are the font library's and are not
\* modelled; the built-in face is never nil, so the call returns.
Text(x, y, text) ==
    /\ Ready
    /\ fontDrawer' = [fontDrawer EXCEPT !.Src = textColor, !.Dot = <<x * 64, y * 64>>]
    /\ call' = [NoCall EXCEPT !.op = "Text", !.args = <<x, y, text>>]
    /\ UNCHANGED <<rgba, style>>

----------------------------------------------------------------------------
(* Specifications *)

\* the sequences over S of length at most n
SeqsUpTo(S, n) == UNION {[1 .. k -> S] : k \in 0 .. n}

\* the points with both coordinates in C
PointsOver(C) == {Point(x, y) : x \in C, y \in C}

Coords == 0 .. MaxCoord
LineCoords == (0 - LineRange) .. LineRange
ShapeCoords == 0 .. (SurfaceSize - 1)
PolyCoords == 0 .. PolyMax
QueryCoords == (0 - 1) .. (PolyMax + 1)
Coefs == (0 - MaxCoef) .. MaxCoef

\* the point lists given to Dots, Path, Polygon and IsInPolygon
SmallLists == SeqsUpTo(PointsOver(Coords), MaxPts)
PathLists == SeqsUpTo(PointsOver(Coords), ChainLen)
PolygonLists == SeqsUpTo(PointsOver(Coords), PolygonLen)
PolyLists == SeqsUpTo(PointsOver(PolyCoords), PolyLen)

\* Every operation, on small arguments.  Ready stands in front of each choice
\* of arguments so that the arguments are only drawn where the call can be made.
Next ==
    \/ \E bg \in Backgrounds : NewContext(bg)
    \/ Ready /\ \E clr \in Colours : SetPen(clr)
    \/ Ready /\ \E clr \in Colours : SetFill(clr)
    \/ Ready /\ \E clr \in Colours : SetTextColor(clr)
    \/ Ready /\ \E f \in Fonts, size \in Sizes : SetFontFace(f, [Size |-> size])
    \/ Ready /\ \E size \in Sizes : SetFontSize(size)
    \/ Ready /\ \E x, y \in Coords : Dot(x, y)
    \/ Ready /\ \E points \in SmallLists : Dots(points)
    \/ Ready /\ \E x0, y0, x1, y1 \in Coords : Line(x0, y0, x1, y1)
    \/ Ready /\ \E x0, y0, x1, y1 \in Coords : Rect(x0, y0, x1, y1)
    \/ Ready /\ \E x, y \in Coords, size \in 0 .. MaxSize : Cross(x, y, size)
    \/ Ready /\ \E points \in SmallLists : Path(points)
    \/ Ready /\ \E x, y \in Coords, points \in SmallLists :
          IsInPolygon(x, y, points)
    \/ Ready /\ \E points \in SmallLists : Polygon(points)
    \/ Ready /\ \E a1, b1, c1 \in Coefs : Parabola(a1, b1, c1)
    \/ Ready /\ \E a1, b1, c1 \in Coefs, x1, x2 \in Coords : ParabolaArc(a1, b1, c1, x1, x2)
    \/ Ready /\ \E x, y \in Coords : Text(x, y, "a")

Spec == Init /\ [][Next]_vars

\* Line between any two points of a square around the origin
NextLine ==
    \/ \E bg \in Backgrounds : NewContext(bg)
    \/ Ready /\ \E clr \in Colours : SetPen(clr)
    \/ Ready /\ \E x0, y0, x1, y1 \in LineCoords : Line(x0, y0, x1, y1)

SpecLine == Init /\ [][NextLine]_vars

\* Rect and Cross anywhere on the surface, in every pen and fill colour
NextShapes ==
    \/ \E bg \in Backgrounds : NewContext(bg)
    \/ Ready /\ \E clr \in Colours : SetPen(clr)
    \/ Ready /\ \E clr \in Colours : SetFill(clr)
    \/ Ready /\ \E x0, y0, x1, y1 \in ShapeCoords : Rect(x0, y0, x1, y1)
    \/ Ready /\ \E x, y \in ShapeCoords, size \in 0 .. MaxSize : Cross(x, y, size)

SpecShapes == Init /\ [][NextShapes]_vars

\* Path on every chain of points of a grid, in every pen colour
NextPath ==
    \/ \E bg \in Backgrounds : NewContext(bg)
    \/ Ready /\ \E clr \in Colours : SetPen(clr)
    \/ Ready /\ \E points \in PathLists : Path(points)

SpecPath == Init /\ [][NextPath]_vars

\* Polygon on longer point lists, in every pen and fill colour
NextPolygon ==
    \/ \E bg \in Backgrounds : NewContext(bg)
    \/ Ready /\ \E clr \in Colours : SetPen(clr)
    \/ Ready /\ \E clr \in Colours : SetFill(clr)
    \/ Ready /\ \E points \in PolygonLists : Polygon(points)

SpecPolygon == Init /\ [][NextPolygon]_vars

\* IsInPolygon on every vertex list of a grid, for the points of the grid and
\* the ring of points around it.  IsInPolygon reads neither the surface nor
\* the style, so one surface is enough.
InitPoly == NewContextState("White")

NextPoly ==
    Ready /\ \E x, y \in QueryCoords, points \in PolyLists : IsInPolygon(x, y, points)

SpecPoly == InitPoly /\ [][NextPoly]_vars

----------------------------------------------------------------------------
(* Properties: Line (SpecLine) *)

\* the larger of two numbers
Max2(a, b) == IF a > b THEN a ELSE b

\* the surface as NewContext found it
Blank == [p \in Pixels |-> bgColor]

\* C4: Line(x0, y0, x1, y1) makes its Dot calls on the same set of pixels as
\* Line(x1, y1, x0, y0), and leaves the surface that the swapped call leaves.
C4_LineSymmetric ==
    call.op = "Line" =>
        LET x0 == call.args[1]
            y0 == call.args[2]
            x1 == call.args[3]
            y1 == call.args[4]
        IN /\ SeqSet(call.dots) = SeqSet(LineDots(x1, y1, x0, y0))
           /\ rgba = SetAll(Blank, LineDots(x1, y1, x0, y0), penColor)

\* a Line call given from its higher end to its lower end that plots pixels
C4_Witness ==
    /\ call.op = "Line"
    /\ call.args[1] > call.args[3]
    /\ call.args[2] > call.args[4]
    /\ Len(call.dots) >= 2
    /\ penColor # bgColor
    /\ rgba # Blank

\* C8: Line calls Dot once for each dominant-axis coordinate from the lower
\* end (included) to the higher end (excluded), in rising order; the dominant
\* axis is y when |dy| >= |dx|, x otherwise.  So it makes max(|dx|, |dy|) calls,
\* the first on the end point with the lower dominant coordinate, none on the
\* end point with the higher one, and none at all for a segment of length zero.
C8_LineDominantAxis ==
    call.op = "Line" =>
        LET x0 == call.args[1]
            y0 == call.args[2]
            x1 == call.args[3]
            y1 == call.args[4]
            steep == Abs(y1 - y0) >= Abs(x1 - x0)
            n == Max2(Abs(x1 - x0), Abs(y1 - y0))
            firstIsLow == IF steep THEN y0 <= y1 ELSE x0 <= x1
            low == IF firstIsLow THEN <<x0, y0>> ELSE <<x1, y1>>
            high == IF firstIsLow THEN <<x1, y1>> ELSE <<x0, y0>>
            axis == IF steep THEN 2 ELSE 1
        IN /\ Len(call.dots) = n
           /\ \A k \in 1 .. Len(call.dots) : call.dots[k][axis] = low[axis] + k - 1
           /\ n > 0 => call.dots[1] = low
           /\ n > 0 => high \notin SeqSet(call.dots)
           /\ (x0 = x1 /\ y0 = y1) => call.dots = <<>>

\* a steep Line call given from its higher end, with a slope, of three or more pixels
C8_Witness ==
    /\ call.op = "Line"
    /\ call.args[2] > call.args[4]
    /\ Abs(call.args[4] - call.args[2]) > Abs(call.args[3] - call.args[1])
    /\ call.args[1] # call.args[3]
    /\ Len(call.dots) >= 3

----------------------------------------------------------------------------
(* Properties: Rect and Cross (SpecShapes) *)

\* C1: with a pen that is not transparent, a transparent fill and a surface
\* of one colour, Rect(x0, y0, x1, y1) with x0 < x1 and y0 < y1 leaves the four
\* corner pixels in the pen colour and every pixel strictly inside in the
\* background colour.
C1_RectCorners ==
    LET x0 == call.args[1]
        y0 == call.args[2]
        x1 == call.args[3]
        y1 == call.args[4]
    IN (/\ call.op = "Rect"
        /\ penColor # Transparent
        /\ fillColor = Transparent
        /\ penColor # bgColor
        /\ x0 < x1
        /\ y0 < y1)
       => /\ rgba[<<x0, y0>>] = penColor
          /\ rgba[<<x1, y0>>] = penColor
          /\ rgba[<<x1, y1>>] = penColor
          /\ rgba[<<x0, y1>>] = penColor
          /\ \A p \in Pixels :
                (x0 < p[1] /\ p[1] < x1 /\ y0 < p[2] /\ p[2] < y1) => rgba[p] = bgColor

\* C2: Cross(x, y, size) with size > 0 that fits the surface sets to the pen colour exactly
\* the pixels of the vertical run (x, y-size) .. (x, y+size) and of the
\* horizontal run (x-size, y) .. (x+size, y), both ends included.
C2_CrossPixels ==
    LET x == call.args[1]
        y == call.args[2]
        size == call.args[3]
    IN (/\ call.op = "Cross"
        /\ penColor # Transparent
        /\ penColor # bgColor
        /\ size > 0
        /\ <<x - size, y - size>> \in Pixels
        /\ <<x + size, y + size>> \in Pixels)
       => {p \in Pixels : rgba[p] = penColor}
            = {<<x, j>> : j \in (y - size) .. (y + size)}
              \cup {<<i, y>> : i \in (x - size) .. (x + size)}

\* C10 as stated: Rect(x0, y0, x1, y1) with a fill colour that is not
\* transparent and x0 < x1, y0 < y1 paints the fill colour over the pixels
\* with y = y0 and x0 <= x < x1, and over no other pixel.
C10_TopStrip ==
    LET x0 == call.args[1]
        y0 == call.args[2]
        x1 == call.args[3]
        y1 == call.args[4]
    IN (/\ call.op = "Rect"
        /\ fillColor # Transparent
        /\ x0 < x1
        /\ y0 < y1)
       => /\ call.filled = {<<x, y0>> : x \in x0 .. (x1 - 1)}
          /\ \A x \in x0 .. (x1 - 1) : rgba[<<x, y0>>] = fillColor

\* C10 as amended: Rect(x0, y0, x1, y1) with a fill colour that is not
\* transparent and x0 < x1, y0 < y1 paints no pixel with the fill colour.
\* The pixels with y = y0 and x0 <= x < x1 keep what the outline phase left
\* (the pen colour, or the background when the pen is transparent) and the
\* pixels strictly inside keep the background.
C10_RectFillsNothing ==
    LET x0 == call.args[1]
        y0 == call.args[2]
        x1 == call.args[3]
        y1 == call.args[4]
    IN (/\ call.op = "Rect"
        /\ fillColor # Transparent
        /\ x0 < x1
        /\ y0 < y1)
       => /\ call.filled = {}
          /\ \A x \in x0 .. (x1 - 1) :
                rgba[<<x, y0>>] = IF penColor # Transparent THEN penColor ELSE bgColor
          /\ \A p \in Pixels :
                (x0 < p[1] /\ p[1] < x1 /\ y0 < p[2] /\ p[2] < y1) => rgba[p] = bgColor

\* a Rect call with an inside, drawn with a black pen and a red fill on white
C10_Witness ==
    /\ call.op = "Rect"
    /\ penColor = Black
    /\ fillColor = "Red"
    /\ bgColor = "White"
    /\ call.args[1] + 1 < call.args[3]
    /\ call.args[2] + 1 < call.args[4]
    /\ rgba[<<call.args[1], call.args[2]>>] = Black

----------------------------------------------------------------------------
(* Properties: the font setters (Spec) *)

\* C3: no operation brings the caller to a panic.
C3_NoPanic == ~panicked

----------------------------------------------------------------------------
(* Properties: Path (SpecPath) *)

\* twice the signed area of the triangle a, b, c
Turn(a, b, c) == (b.X - a.X) * (c.Y - a.Y) - (b.Y - a.Y) * (c.X - a.X)

\* the pixels on which one Line call <<x0, y0, x1, y1>> calls Dot
DotsOfLine(l) == SeqSet(LineDots(l[1], l[2], l[3], l[4]))

\* the end of the segment <<x0, y0, x1, y1>> with the lower coordinate on the
\* segment's dominant axis (y when |dy| >= |dx|, x otherwise)
LowEnd(l) ==
    IF Abs(l[4] - l[2]) >= Abs(l[3] - l[1])
    THEN (IF l[2] <= l[4] THEN <<l[1], l[2]>> ELSE <<l[3], l[4]>>)
    ELSE (IF l[1] <= l[3] THEN <<l[1], l[2]>> ELSE <<l[3], l[4]>>)

\* the points of the list are all different
AllDifferent(pts) == \A i, k \in 1 .. Len(pts) : i # k => pts[i] # pts[k]

\* C7 as stated: in Path(points) with consecutive points different, the pixel
\* of each inner vertex points[i] gets a Dot from at most one of the two
\* segments that meet at it.  (Stated here for lists of points that are all
\* different and for vertices where the path turns, so that a path that
\* walks back over itself is not what refutes it.)
C7_NoDoublePlot ==
    LET pts == call.args
    IN (call.op = "Path" /\ AllDifferent(pts))
       => \A i \in 2 .. (Len(pts) - 1) :
             Turn(pts[i - 1], pts[i], pts[i + 1]) # 0
             => ~(/\ <<pts[i].X, pts[i].Y>> \in DotsOfLine(call.lines[i - 1])
                  /\ <<pts[i].X, pts[i].Y>> \in DotsOfLine(call.lines[i]))

\* C7 as amended: in Path(points) with consecutive points different, each of
\* the two segments that meet at an inner vertex points[i] calls Dot on its
\* pixel exactly when the vertex is that segment's end with the lower
\* dominant-axis coordinate.  So the vertex gets a Dot from at most one of
\* the two segments unless it is the lower end of both, and then from both.
C7_PlottedIffLowEnd ==
    LET pts == call.args
    IN (/\ call.op = "Path"
        /\ \A i \in 1 .. (Len(pts) - 1) : pts[i] # pts[i + 1])
       => \A i \in 2 .. (Len(pts) - 1) :
             LET v == <<pts[i].X, pts[i].Y>>
             IN /\ v \in DotsOfLine(call.lines[i - 1]) <=> LowEnd(call.lines[i - 1]) = v
                /\ v \in DotsOfLine(call.lines[i]) <=> LowEnd(call.lines[i]) = v
                /\ (v \in DotsOfLine(call.lines[i - 1]) /\ v \in DotsOfLine(call.lines[i]))
                      <=> (LowEnd(call.lines[i - 1]) = v /\ LowEnd(call.lines[i]) = v)

\* a Path of three points, not on one line, whose middle vertex is the lower
\* end of both segments and gets a Dot from both
C7_Witness ==
    /\ call.op = "Path"
    /\ Len(call.args) = 3
    /\ Turn(call.args[1], call.args[2], call.args[3]) # 0
    /\ LowEnd(call.lines[1]) = <<call.args[2].X, call.args[2].Y>>
    /\ LowEnd(call.lines[2]) = <<call.args[2].X, call.args[2].Y>>
    /\ Len(call.dots) >= 2
    /\ call.dots[1] = <<call.args[2].X, call.args[2].Y>>
    /\ call.dots[Len(LineDots(call.lines[1][1], call.lines[1][2],
                              call.lines[1][3], call.lines[1][4])) + 1]
          = <<call.args[2].X, call.args[2].Y>>

----------------------------------------------------------------------------
(* Properties: Polygon (SpecPolygon) *)

\* C5: with a pen that is not transparent, Polygon on a vertex list A, B, C, A
\* of three points not on one line draws the segments A-B and B-C and the
\* closing segment C-A.
C5_PolygonClosed ==
    LET pts == call.args
    IN (/\ call.op = "Polygon"
        /\ penColor # Transparent
        /\ Len(pts) = 4
        /\ pts[4] = pts[1]
        /\ Turn(pts[1], pts[2], pts[3]) # 0)
       => /\ <<pts[1].X, pts[1].Y, pts[2].X, pts[2].Y>> \in SeqSet(call.lines)
          /\ <<pts[2].X, pts[2].Y, pts[3].X, pts[3].Y>> \in SeqSet(call.lines)
          /\ <<pts[3].X, pts[3].Y, pts[1].X, pts[1].Y>> \in SeqSet(call.lines)

\* C9: every pixel Polygon's fill loop tests lies on the surface and inside
\* the bounding box of the deduplicated points.  (Stated here for three or
\* more deduplicated points, not all on one line.)
C9_ScanClamped ==
    LET p == DedupLoop(call.args, <<>>)
    IN (/\ call.op = "Polygon"
        /\ fillColor # Transparent
        /\ Len(p) >= 3
        /\ Turn(p[1], p[2], p[3]) # 0)
       => \A q \in call.tested :
             /\ q \in Pixels
             /\ \E i \in 1 .. Len(p) : p[i].X <= q[1]
             /\ \E i \in 1 .. Len(p) : q[1] <= p[i].X
             /\ \E i \in 1 .. Len(p) : p[i].Y <= q[2]
             /\ \E i \in 1 .. Len(p) : q[2] <= p[i].Y

----------------------------------------------------------------------------
(* Properties: IsInPolygon (SpecPoly) *)

\* the vertex after vertex i
After(i, p) == IF i = Len(p) THEN 1 ELSE i + 1

\* p lists the vertices of a convex polygon in order around it: three or
\* more different points, every vertex on the same side of (or on) the line
\* of every edge, and three of them not on one line
Convex(p) ==
    /\ Len(p) >= 3
    /\ \A i, k \in 1 .. Len(p) : i # k => p[i] # p[k]
    /\ \/ \A i, k \in 1 .. Len(p) : Turn(p[i], p[After(i, p)], p[k]) >= 0
       \/ \A i, k \in 1 .. Len(p) : Turn(p[i], p[After(i, p)], p[k]) <= 0
    /\ \E i, k \in 1 .. Len(p) : Turn(p[i], p[After(i, p)], p[k]) # 0

RECURSIVE SumX(_)
SumX(p) == IF p = <<>> THEN 0 ELSE Head(p).X + SumX(Tail(p))

RECURSIVE SumY(_)
SumY(p) == IF p = <<>> THEN 0 ELSE Head(p).Y + SumY(Tail(p))

\* (x, y) is the centroid of the vertices p
IsCentroid(x, y, p) == SumX(p) = Len(p) * x /\ SumY(p) = Len(p) * y

\* (x, y) lies outside the bounding box of p (every point does when p is empty)
OutsideBox(x, y, p) ==
    \/ \A i \in 1 .. Len(p) : x < p[i].X
    \/ \A i \in 1 .. Len(p) : p[i].X < x
    \/ \A i \in 1 .. Len(p) : y < p[i].Y
    \/ \A i \in 1 .. Len(p) : p[i].Y < y

\* C6: IsInPolygon is true for the centroid of a convex polygon when the
\* centroid is a point of the integer grid, and false for every point outside
\* the bounding box of the vertex list, whatever the list.
C6_CentroidInOutsideOut ==
    call.op = "IsInPolygon" =>
        LET x == call.args[1]
            y == call.args[2]
            p == call.args[3]
        IN /\ (IsCentroid(x, y, p) /\ Convex(p)) => call.ret
           /\ OutsideBox(x, y, p) => ~call.ret

\* IsInPolygon asked for the centroid of a convex polygon, answering true
C6_Witness ==
    /\ call.op = "IsInPolygon"
    /\ Convex(call.args[3])
    /\ IsCentroid(call.args[1], call.args[2], call.args[3])
    /\ call.ret

====
